---- MODULE Spec2Model ----
(***************************************************************************)
(* A model of app.py, the Streamlit viewer of a weekly teacher timetable.  *)
(*                                                                         *)
(* Text.  A Python str is modelled as a sequence of tokens, each token a   *)
(* run of characters that the program never splits: <<>> is '', string     *)
(* concatenation (f"{day}{period}") is \o, and a substring test or a       *)
(* str.replace acts on tokens.  The Korean literals of the source are      *)
(* romanised: '월','화','수','목','금' are "wol","hwa","su","mok","geum";  *)
(* '교시' is "gyosi"; the columns '연번','교과','부서','교사' are          *)
(* "yeonbeon","gyogwa","buseo","gyosa".                                    *)
(***************************************************************************)
EXTENDS Integers, Sequences, FiniteSets, TLC

\* ------------------------------------------------------------ constants

\* days = ['월', '화', '수', '목', '금']
Days == <<"wol", "hwa", "su", "mok", "geum">>
\* periods = [f"{i}교시" for i in range(1, 8)]
NumPeriods == 7
\* target_column = f"{today_kor}4"
LunchPeriod == 4
\* df.columns[:5] / df.columns[5:]
IdCols == 5
\* @st.cache_data(ttl=3600)
TTL == 3600

YEONBEON == <<"yeonbeon">>
GYOGWA == <<"gyogwa">>
BUSEO == <<"buseo">>
GYOSA == <<"gyosa">>

\* ----------------------------------------------------------------- text

Min(a, b) == IF a < b THEN a ELSE b

\* F(e), with e evaluated once
With(e, F(_)) == CHOOSE y \in {F(x) : x \in {e}} : TRUE

Digit == <<"0", "1", "2", "3", "4", "5", "6", "7", "8", "9">>

\* str(n) of a natural number, as in f"{i+1}"
RECURSIVE Str(_)
Str(n) == IF n < 10 THEN <<Digit[n + 1]>> ELSE Str(n \div 10) \o <<Digit[(n % 10) + 1]>>

\* sub in text, for a one-token sub
Contains(text, tok) == \E i \in 1..Len(text) : text[i] = tok

\* text.replace(tok, '')
Remove(text, tok) == SelectSeq(text, LAMBDA t : t # tok)

\* the float NaN pandas gives a blank cell
NaN == <<"NaN">>

\* the characters [가-힣]
Hangul == {"kim", "lee", "park"}

\* the length of the match of ^[가-힣]+ at the start of text (0: no match)
RECURSIVE HangulRun(_)
HangulRun(text) ==
    IF text = <<>> \/ Head(text) \notin Hangul THEN 0 ELSE 1 + HangulRun(Tail(text))

\* lambda x: re.match(r'^[가-힣]+', str(x)).group(0) if re.match(...) else x
CleanName(x) ==
    LET n == HangulRun(x) IN IF n > 0 THEN SubSeq(x, 1, n) ELSE x

\* int(x) succeeds: a cell of digits
IsNumeric(c) == c # <<>> /\ \A i \in 1..Len(c) : \E d \in 1..10 : c[i] = Digit[d]

\* ------------------------------------------------------------ the table

\* A sheet s is the CSV behind GITHUB_FILE_URL below its skipped first line:
\* s.up, whether the fetch and the parse succeed; s.h1 and s.h2, the two
\* header rows; s.rows, the data rows; cell by cell, a blank cell being <<>>.
\* A DataFrame: its column labels and its rows, cell by cell; None is NoneDF.
NoneDF == [none |-> TRUE, cols |-> <<>>, rows |-> <<>>]
\* pd.DataFrame()
EmptyDF == [none |-> FALSE, cols |-> <<>>, rows |-> <<>>]

\* the first position of label c in cols, 0 when absent (c in df.columns)
ColIndex(cols, c) ==
    LET at == {j \in 1..Len(cols) : cols[j] = c}
    IN  IF at = {} THEN 0 ELSE CHOOSE j \in at : \A k \in at : j <= k
HasCol(d, c) == ColIndex(d.cols, c) > 0
\* row[c]
Cell(d, row, c) == row[ColIndex(d.cols, c)]

\* pd.read_csv(header=[1, 2]): a blank header cell of column j (0-based) on
\* level k reads 'Unnamed: j_level_k'
HeaderCell(cell, j, k) ==
    IF cell = <<>> THEN <<"Unnamed", ": ">> \o Str(j) \o <<"_level_">> \o Str(k) ELSE cell
\* df.columns of the frame as read: the (level 0, level 1) pairs
ReadColumns(s) ==
    [j \in 1..Len(s.h1) |-> <<HeaderCell(s.h1[j], j - 1, 0), HeaderCell(s.h2[j], j - 1, 1)>>]
\* a blank data cell reads NaN
ReadRow(r) == [j \in 1..Len(r) |-> IF r[j] = <<>> THEN NaN ELSE r[j]]

\* day = col[0] if 'Unnamed' not in col[0] else day_temp
CarryDayDropsDay(level0, day_temp) == IF ~Contains(level0, "Unnamed") THEN level0 ELSE <<>>
CarryDay(level0, day_temp) == IF ~Contains(level0, "Unnamed") THEN level0 ELSE day_temp

\* for col in df.columns[5:]: ... new_columns.append(f"{day}{period}"); day_temp = day
RECURSIVE FlattenRest(_, _, _)
FlattenRest(columns, j, day_temp) ==
    IF j > Len(columns) THEN <<>>
    ELSE LET day == CarryDay(columns[j][1], day_temp)
             period == columns[j][2]
         IN  <<day \o period>> \o FlattenRest(columns, j + 1, day)

\* new_columns = [col[1] for col in df.columns[:5]] followed by the loop
NewColumns(columns) ==
    [j \in 1..Min(IdCols, Len(columns)) |-> columns[j][2]] \o FlattenRest(columns, IdCols + 1, <<>>)

\* load_data_from_github: the frame, or NoneDF when anything raised
load_data_from_github(s) ==
    IF ~s.up THEN NoneDF                                   \* read_csv raised
    ELSE LET cols == NewColumns(ReadColumns(s))
             k == ColIndex(cols, YEONBEON)
             t == ColIndex(cols, GYOSA)
         IN  IF k = 0 THEN NoneDF                           \* dropna: KeyError
             ELSE LET kept == SelectSeq([i \in 1..Len(s.rows) |-> ReadRow(s.rows[i])],
                                        LAMBDA r : r[k] # NaN)
                  IN  IF \E i \in 1..Len(kept) : ~IsNumeric(kept[i][k]) THEN NoneDF  \* astype(int)
                      ELSE IF t = 0 THEN NoneDF             \* df['교사']: KeyError
                      ELSE [none |-> FALSE, cols |-> cols,
                            rows |-> [i \in 1..Len(kept) |->
                                       [j \in 1..Len(cols) |->
                                         LET c == IF j = t THEN CleanName(kept[i][j]) ELSE kept[i][j]
                                         IN  IF c = NaN THEN <<>> ELSE c]]]

\* ------------------------------------------------------- the clock

\* now.weekday() is 0 (Monday) .. 6; period is the entry of PERIOD_TIMES whose
\* interval holds now.time(), 0 when none does.
\* weekday_map = {0: '월', 1: '화', 2: '수', 3: '목', 4: '금'}
InWeekdayMap(weekday) == weekday \in 0..(Len(Days) - 1)
NoDay == <<"None">>

\* the option f"{i}교시"
PeriodName(i) == Str(i) \o <<"gyosi">>

\* get_current_period: (current_day, current_period), None as NoDay
get_current_period(now) ==
    IF ~InWeekdayMap(now.weekday) THEN <<NoDay, NoDay>>
    ELSE IF now.period \in 1..NumPeriods THEN <<<<Days[now.weekday + 1]>>, PeriodName(now.period)>>
    ELSE <<<<Days[now.weekday + 1]>>, NoDay>>

\* the cells of a grid: <<d, i>> is column days[d], row periods[i - 1]
Slots == (1..Len(Days)) \X (1..NumPeriods)
\* a grid (a DataFrame with index=periods, columns=days), cell by cell
Grid(cell(_)) == [d \in 1..Len(Days) |-> [i \in 1..NumPeriods |-> cell(<<d, i>>)]]
\* col_name = f"{day}{i+1}", for every cell
ColNames == Grid(LAMBDA s : <<Days[s[1]]>> \o Str(s[2]))
ColName(slot) == ColNames[slot[1]][slot[2]]

\* highlight_schedule: the style of every cell of a grid
highlight_schedule(current_day, current_period) ==
    Grid(LAMBDA s :
        IF <<Days[s[1]]>> = current_day /\ PeriodName(s[2]) = current_period THEN "LemonChiffon"
        ELSE IF <<Days[s[1]]>> = current_day THEN "AliceBlue"
        ELSE "")

\* ------------------------------------------------------- the queries

\* df[mask]: the rows that satisfy keep, in order
FilterRows(d, keep(_)) == [d EXCEPT !.rows = SelectSeq(d.rows, keep)]
\* df[c].tolist()
Column(d, c) == [i \in 1..Len(d.rows) |-> Cell(d, d.rows[i], c)]
\* df[c].unique(), as a set
Unique(d, c) == {Cell(d, d.rows[i], c) : i \in 1..Len(d.rows)}

NoSel == <<"None">>
NoView == [kind |-> "none", a |-> <<>>, b |-> <<>>]

\* display_lunch_members, were a missing column taken for an empty one
display_lunch_membersLenient(d, now, selected_dept) ==
    IF ~InWeekdayMap(now.weekday) THEN [kind |-> "weekend", a |-> <<>>, b |-> <<>>]
    ELSE IF ~HasCol(d, BUSEO) THEN [kind |-> "KeyError", a |-> <<>>, b |-> <<>>]
    ELSE IF selected_dept = NoSel THEN [kind |-> "select", a |-> <<>>, b |-> <<>>]
    ELSE [kind |-> "members",
          a |-> Column(FilterRows(d, LAMBDA r : Cell(d, r, BUSEO) = selected_dept), GYOSA),
          b |-> <<>>]

\* display_lunch_members, from the weekday test on: what the expander shows
display_lunch_members(d, now, selected_dept) ==
    IF ~InWeekdayMap(now.weekday) THEN [kind |-> "weekend", a |-> <<>>, b |-> <<>>]
    ELSE IF ~HasCol(d, BUSEO) THEN [kind |-> "KeyError", a |-> <<>>, b |-> <<>>]
    ELSE IF selected_dept = NoSel THEN [kind |-> "select", a |-> <<>>, b |-> <<>>]
    ELSE LET target_column == <<Days[now.weekday + 1]>> \o Str(LunchPeriod)
             dept_df == FilterRows(d, LAMBDA r : Cell(d, r, BUSEO) = selected_dept)
         IN  IF ~HasCol(d, target_column) THEN [kind |-> "KeyError", a |-> <<>>, b |-> <<>>]
             ELSE [kind |-> "members",
                   a |-> Column(FilterRows(dept_df, LAMBDA r : Cell(d, r, target_column) = <<>>), GYOSA),
                   b |-> Column(FilterRows(dept_df, LAMBDA r : Cell(d, r, target_column) # <<>>), GYOSA)]

\* all_departments = sorted(df[df['부서'] != '']['부서'].unique()), as a set
all_departments(d) == IF HasCol(d, BUSEO) THEN Unique(d, BUSEO) \ {<<>>} ELSE {}

\* .any() in place of .all()
IsAllFreeAny(d, j) == \E i \in 1..Len(d.rows) : d.rows[i][j] = <<>>
\* (df_filtered[col_name] == '').all(), col_name being column j
IsAllFree(d, j) == \A i \in 1..Len(d.rows) : d.rows[i][j] = <<>>

\* for every cell, the position of its col_name among the frame's columns (0:
\* col_name is not in df.columns)
SlotColumn(d) == Grid(LAMBDA s : ColIndex(d.cols, ColName(s)))
At(g, s) == g[s[1]][s[2]]

\* display_combined_timetable, were a missing column taken for a free one
display_combined_timetableAbsentFree(d) ==
    With(SlotColumn(d), LAMBDA col :
        Grid(LAMBDA s :
            IF At(col, s) > 0 /\ ~IsAllFree(d, At(col, s)) THEN "" ELSE "common free"))

\* display_combined_timetable: combined_df.fillna(""), cell by cell
display_combined_timetable(d) ==
    With(SlotColumn(d), LAMBDA col :
        Grid(LAMBDA s :
            IF At(col, s) > 0                              \* if col_name in df_filtered.columns
            THEN IF IsAllFree(d, At(col, s)) THEN "common free" ELSE ""
            ELSE ""))

\* display_availability_filter, were `unavailable` filtered like `available`
display_availability_filterSameMask(d, day, period) ==
    LET target_col == day \o Remove(period, "gyosi")
    IN  IF HasCol(d, target_col)
        THEN [kind |-> "lists",
              a |-> Column(FilterRows(d, LAMBDA r : Cell(d, r, target_col) = <<>>), GYOSA),
              b |-> Column(FilterRows(d, LAMBDA r : Cell(d, r, target_col) = <<>>), GYOSA)]
        ELSE NoView

\* display_availability_filter: the two captions, or nothing
display_availability_filter(d, day, period) ==
    LET target_col == day \o Remove(period, "gyosi")
    IN  IF HasCol(d, target_col)
        THEN [kind |-> "lists",
              a |-> Column(FilterRows(d, LAMBDA r : Cell(d, r, target_col) = <<>>), GYOSA),
              b |-> Column(FilterRows(d, LAMBDA r : Cell(d, r, target_col) # <<>>), GYOSA)]
        ELSE NoView

\* display_teacher_timetable: timetable.fillna('') of every row
display_teacher_timetable(d) ==
    With(SlotColumn(d), LAMBDA col :
        [i \in 1..Len(d.rows) |->
            Grid(LAMBDA s :
                IF At(col, s) > 0 THEN d.rows[i][At(col, s)] ELSE <<>>)])   \* if col_name in row

\* the name search, were an empty selection to mean every teacher
NameSearchAllWhenEmpty(d, teachers) ==
    IF teachers # {} THEN FilterRows(d, LAMBDA r : Cell(d, r, GYOSA) \in teachers) ELSE d

\* if teachers: filtered_df = df[df['교사'].isin(teachers)]
NameSearch(d, teachers) ==
    IF teachers # {} THEN FilterRows(d, LAMBDA r : Cell(d, r, GYOSA) \in teachers) ELSE EmptyDF

\* the subject and department search, were q_parts joined by " or "
SubjectSearchOr(d, subjects, departments) ==
    IF subjects # {} \/ departments # {}
    THEN FilterRows(d, LAMBDA r : \/ (subjects # {} /\ Cell(d, r, GYOGWA) \in subjects)
                                  \/ (departments # {} /\ Cell(d, r, BUSEO) \in departments))
    ELSE EmptyDF

\* df.query(" and ".join(q_parts))
SubjectSearch(d, subjects, departments) ==
    IF subjects # {} \/ departments # {}
    THEN FilterRows(d, LAMBDA r : /\ (subjects # {} => Cell(d, r, GYOGWA) \in subjects)
                                  /\ (departments # {} => Cell(d, r, BUSEO) \in departments))
    ELSE EmptyDF

\* ------------------------------------------------------- the script

\* The widgets of the page and their values before the user touches them.
\* A widget the run does not reach, or whose options no longer hold its
\* value, starts again from its default.
DefaultUi ==
    [selected_dept |-> NoSel,          \* st.selectbox(..., index=None)
     search_option |-> "subject",      \* st.sidebar.radio: the first option
     teachers |-> {}, subjects |-> {}, departments |-> {},
     day_filter |-> <<Days[1]>>, period_filter |-> PeriodName(1)]

NoGrid == [shown |-> FALSE, grid |-> Grid(LAMBDA s : "")]
Blank == [status |-> "warning", rendered |-> {}, lunch |-> NoView, filtered |-> EmptyDF,
          combined |-> NoGrid, avail |-> NoView, timetables |-> <<>>,
          styles |-> highlight_schedule(NoDay, NoDay)]

\* if len(filtered_df) > 1: display_combined_timetable(...)
ShowCombined(filtered_df) == Len(filtered_df.rows) > 1

\* the values the widgets of a run over d hold, given the values u they had
\* (sort_option orders the options of the teacher multiselect and nothing
\* else, so it is not kept)
Widgets(d, now, u) ==
    LET canSubj == HasCol(d, GYOGWA) /\ HasCol(d, BUSEO)
        byName == u.search_option = "name"
    IN  [selected_dept |-> IF InWeekdayMap(now.weekday) /\ u.selected_dept \in all_departments(d)
                           THEN u.selected_dept ELSE NoSel,
         search_option |-> u.search_option,
         teachers |-> IF byName /\ u.teachers \subseteq Unique(d, GYOSA) THEN u.teachers ELSE {},
         subjects |-> IF ~byName /\ canSubj /\ u.subjects \subseteq Unique(d, GYOGWA)
                      THEN u.subjects ELSE {},
         departments |-> IF ~byName /\ canSubj /\ u.departments \subseteq Unique(d, BUSEO)
                         THEN u.departments ELSE {},
         day_filter |-> u.day_filter, period_filter |-> u.period_filter]

\* the `if not filtered_df.empty` branch: the result views of filtered_df
Results(d, w, base, filtered_df) ==
    LET shown == [base EXCEPT
                !.rendered = @ \cup {"day_filter", "period_filter"},
                !.filtered = filtered_df,
                !.combined = IF ShowCombined(filtered_df)
                             THEN [shown |-> TRUE, grid |-> display_combined_timetable(filtered_df)]
                             ELSE NoGrid,
                !.avail = display_availability_filter(filtered_df, w.day_filter, w.period_filter)]
    IN  [ui |-> w,
         out |-> IF ~(HasCol(d, GYOGWA) /\ HasCol(d, BUSEO))      \* row['부서'], row['교과']
                 THEN [shown EXCEPT !.status = "KeyError"]
                 ELSE [shown EXCEPT !.timetables = display_teacher_timetable(filtered_df)]]

\* the sidebar and what follows it, after display_lunch_members rendered
\* `base`
Search(d, w, base) ==
    LET byName == w.search_option = "name"
        canSubj == HasCol(d, GYOGWA) /\ HasCol(d, BUSEO)
        searchW == {"search_option"} \cup (IF byName THEN {"teachers"} ELSE {"subjects", "departments"})
        noFilter == [w EXCEPT !.day_filter = DefaultUi.day_filter,
                              !.period_filter = DefaultUi.period_filter]
    IN  IF ~byName /\ ~canSubj                               \* df['교과'], df['부서']
        THEN [ui |-> noFilter,
              out |-> [base EXCEPT !.status = "KeyError", !.rendered = @ \cup {"search_option"}]]
        ELSE With(IF byName THEN NameSearch(d, w.teachers)
                  ELSE SubjectSearch(d, w.subjects, w.departments),
                  LAMBDA filtered_df :
                    IF filtered_df.rows = <<>>               \* filtered_df.empty: st.info
                    THEN [ui |-> noFilter,
                          out |-> [base EXCEPT !.rendered = @ \cup searchW, !.filtered = filtered_df]]
                    ELSE Results(d, w, [base EXCEPT !.rendered = @ \cup searchW], filtered_df))

\* One run of the script from `if df is not None` on, with the widget values
\* u: the page it renders and the widget values it leaves.
RunScript(d, now, u) ==
    IF d.none THEN [ui |-> DefaultUi, out |-> Blank]         \* st.warning
    ELSE With(Widgets(d, now, u), LAMBDA w :
         With(display_lunch_members(d, now, w.selected_dept), LAMBDA lunch :
         With([Blank EXCEPT !.status = "ok", !.lunch = lunch,
                            !.rendered = IF InWeekdayMap(now.weekday) /\ HasCol(d, BUSEO)
                                         THEN {"selected_dept"} ELSE {},
                            !.styles = With(get_current_period(now),
                                            LAMBDA cur : highlight_schedule(cur[1], cur[2]))],
              LAMBDA base :
                IF lunch.kind = "KeyError"
                THEN [ui |-> [DefaultUi EXCEPT !.selected_dept = w.selected_dept],
                      out |-> [base EXCEPT !.status = "KeyError"]]
                ELSE Search(d, w, base))))

\* ------------------------------------------------------- the cache

\* st.cache_data(ttl=3600): an entry younger than the ttl is served
CacheHitNever(c, age) == FALSE
CacheHit(c, age) == c.has /\ age < TTL

\* a miss runs the function and stores what it returned, None included
StoreKeepsLastGood(c, v) ==
    [has |-> TRUE, age |-> 0, value |-> IF v.none /\ c.has THEN c.value ELSE v]
Store(c, v) == [has |-> TRUE, age |-> 0, value |-> v]

\* df = load_data_from_github(GITHUB_FILE_URL), `elapsed` seconds after the
\* previous run: the frame, the cache afterwards, and, when the function ran,
\* the sheet it read and how it ended (`before` otherwise)
CachedLoad(c, s, elapsed, before) ==
    LET age == Min(c.age + elapsed, TTL)
    IN  IF CacheHit(c, age)
        THEN [cache |-> [c EXCEPT !.age = age], df |-> c.value,
              attempt |-> before.attempt, fetched |-> before.fetched]
        ELSE With(load_data_from_github(s), LAMBDA v :
             With(Store(c, v), LAMBDA stored :
                [cache |-> stored, df |-> stored.value,
                 attempt |-> IF v.none THEN "failed" ELSE "ok", fetched |-> s]))

\* ------------------------------------------------------- inputs

\* the most rows a published sheet has
MaxRows == 2
\* the weekday labels a first header row is drawn from, besides blank
HeaderDays == 2

\* the sequences over S of length at most n
SeqsUpTo(S, n) == UNION {[1..k -> S] : k \in 0..n}

IdHeader == <<YEONBEON, GYOGWA, BUSEO, GYOSA, <<"bigo">>>>
BlankIds == [j \in 1..IdCols |-> <<>>]

\* a sheet whose slot columns are one weekday block: the weekday on the
\* block's first column only, the periods below it
Sheet(up, ids, periods, rows) ==
    [up |-> up,
     h1 |-> BlankIds \o [j \in 1..Len(periods) |-> IF j = 1 THEN <<Days[1]>> ELSE <<>>],
     h2 |-> ids \o [j \in 1..Len(periods) |-> Str(periods[j])],
     rows |-> rows]

RawNames == {<<"kim">>, <<"lee", "(16)">>}
Busy == <<"class">>

\* rows numbered 1, 2, ... of the subject "math" and the department "d1"
SlotRows(n) ==
    {[i \in 1..Len(b) |-> <<Str(i), <<"math">>, <<"d1">>, b[i][1], <<>>>> \o b[i][2]] :
        b \in SeqsUpTo(RawNames \X [1..n -> {<<>>, Busy}], MaxRows)}
SlotSheets ==
    UNION {{Sheet(TRUE, IdHeader, periods, rows) : rows \in SlotRows(Len(periods))} :
            periods \in {<<>>, <<1>>, <<LunchPeriod>>}}

\* rows without slot columns, with or without a subject and a department
SearchRows ==
    {[i \in 1..Len(b) |-> <<Str(i), b[i][1], b[i][2], IF i = 1 THEN <<"kim">> ELSE <<"lee">>, <<>>>>] :
        b \in SeqsUpTo({<<>>, <<"math">>} \X {<<>>, <<"d1">>}, MaxRows)}
SearchSheets == {Sheet(TRUE, IdHeader, <<>>, rows) : rows \in SearchRows}

\* sheets of n rows, sound or with one fault: the URL does not answer, an
\* identity column is renamed, the last row's sequence id is not a number
Renamed(j) == [IdHeader EXCEPT ![j] = <<"etc">>]
LoadRows(n, bad) ==
    [i \in 1..n |-> <<IF bad /\ i = n THEN <<"x">> ELSE Str(i), <<"math">>, <<"d1">>,
                      <<"kim">>, <<>>, IF i = 1 THEN Busy ELSE <<>>>>]
LoadSheets ==
    UNION {{Sheet(TRUE, IdHeader, <<LunchPeriod>>, LoadRows(n, FALSE)),
            Sheet(FALSE, IdHeader, <<LunchPeriod>>, LoadRows(n, FALSE)),
            Sheet(TRUE, Renamed(1), <<LunchPeriod>>, LoadRows(n, FALSE)),
            Sheet(TRUE, Renamed(3), <<LunchPeriod>>, LoadRows(n, FALSE)),
            Sheet(TRUE, Renamed(4), <<LunchPeriod>>, LoadRows(n, FALSE)),
            Sheet(TRUE, IdHeader, <<LunchPeriod>>, LoadRows(n, TRUE))} : n \in 1..MaxRows}

\* header rows only: any labels over one block of period columns
HeaderLabels == {<<>>} \cup {<<Days[d]>> : d \in 1..HeaderDays}
HeaderSheets ==
    {[up |-> TRUE, h1 |-> BlankIds \o l, h2 |-> IdHeader \o [j \in 1..NumPeriods |-> Str(j)],
      rows |-> <<>>] : l \in [1..NumPeriods -> HeaderLabels]}

\* the moments a run happens at, and the seconds between two runs
Clocks == {[weekday |-> 0, period |-> LunchPeriod], [weekday |-> 5, period |-> 0]}
Elapsed == {TTL \div 2, TTL}
\* the slots the user asks the availability of
DayChoices == {<<Days[1]>>, <<Days[2]>>}
PeriodChoices == {PeriodName(1), PeriodName(LunchPeriod)}

\* ------------------------------------------------------- the state

VARIABLES
    src,      \* the sheet published at GITHUB_FILE_URL
    cache,    \* st.cache_data's entry for load_data_from_github(GITHUB_FILE_URL)
    now,      \* the clock of the last run
    ui,       \* the widget values
    df,       \* the script's df in the last run
    out,      \* the page the last run rendered
    attempt,  \* how the most recent run of load_data_from_github ended
    fetched   \* the sheet the most recent run of load_data_from_github read
vars == <<src, cache, now, ui, df, out, attempt, fetched>>

Start(sheets) ==
    /\ src \in sheets
    /\ cache = [has |-> FALSE, age |-> 0, value |-> NoneDF]
    /\ now = [weekday |-> 0, period |-> 0]
    /\ ui = DefaultUi
    /\ df = NoneDF
    /\ out = [Blank EXCEPT !.status = "start"]
    /\ attempt = "none"
    /\ fetched = src

Init == Start(SlotSheets)
InitSearch == Start(SearchSheets)
InitLoad == Start(LoadSheets)
InitHeader == Start(HeaderSheets)

\* a run of the whole script with the widget values u
Run(u, elapsed, clock) ==
    \E c \in {CachedLoad(cache, src, elapsed, [attempt |-> attempt, fetched |-> fetched])} :
    \E r \in {RunScript(c.df, clock, u)} :
        /\ cache' = c.cache
        /\ df' = c.df
        /\ attempt' = c.attempt
        /\ fetched' = c.fetched
        /\ now' = clock
        /\ ui' = r.ui
        /\ out' = r.out
        /\ src' = src

Toggle(S, x) == IF x \in S THEN S \ {x} ELSE S \cup {x}

\* the page is opened or reloaded after a while
Refresh == \E e \in Elapsed, c \in Clocks : Run(ui, e, c)

SelectDept ==
    /\ "selected_dept" \in out.rendered
    /\ \E x \in (all_departments(df) \cup {NoSel}) \ {ui.selected_dept} :
          Run([ui EXCEPT !.selected_dept = x], 0, now)

ChooseSearch ==
    /\ "search_option" \in out.rendered
    /\ \E o \in {"subject", "name"} \ {ui.search_option} :
          Run([ui EXCEPT !.search_option = o], 0, now)

SelectTeachers ==
    /\ "teachers" \in out.rendered
    /\ \E x \in Unique(df, GYOSA) : Run([ui EXCEPT !.teachers = Toggle(@, x)], 0, now)

SelectSubjects ==
    /\ "subjects" \in out.rendered
    /\ \E x \in Unique(df, GYOGWA) : Run([ui EXCEPT !.subjects = Toggle(@, x)], 0, now)

SelectDepartments ==
    /\ "departments" \in out.rendered
    /\ \E x \in Unique(df, BUSEO) : Run([ui EXCEPT !.departments = Toggle(@, x)], 0, now)

ChooseDay ==
    /\ "day_filter" \in out.rendered
    /\ \E x \in DayChoices \ {ui.day_filter} : Run([ui EXCEPT !.day_filter = x], 0, now)

ChoosePeriod ==
    /\ "period_filter" \in out.rendered
    /\ \E x \in PeriodChoices \ {ui.period_filter} : Run([ui EXCEPT !.period_filter = x], 0, now)

\* A widget is touched and the script reruns at once.  The time that passes
\* between two runs passes in Refresh: a rerun with a widget touched after
\* the ttl expired ends in the state Refresh followed by the widget's step
\* ends in.
Interact ==
    \/ SelectDept
    \/ ChooseSearch
    \/ SelectTeachers
    \/ SelectSubjects
    \/ SelectDepartments
    \/ ChooseDay
    \/ ChoosePeriod

\* the sheet behind the URL is replaced, or the URL stops or starts answering
Publish ==
    /\ src' \in LoadSheets \ {src}
    /\ UNCHANGED <<cache, now, ui, df, out, attempt, fetched>>

Next == Refresh \/ Interact
NextLoad == Refresh \/ Interact \/ Publish

Spec == Init /\ [][Next]_vars
SpecSearch == InitSearch /\ [][Next]_vars
SpecLoad == InitLoad /\ [][NextLoad]_vars
SpecHeader == InitHeader /\ [][Refresh]_vars

\* ------------------------------------------------------- the claims

\* the elements of seq at the positions in I, in order
RECURSIVE Pick(_, _, _)
Pick(seq, I, k) ==
    IF k > Len(seq) THEN <<>>
    ELSE (IF k \in I THEN <<seq[k]>> ELSE <<>>) \o Pick(seq, I, k + 1)

\* the selected records of the last run, when it rendered the result views
R == out.filtered
Found == out.status = "ok" /\ R.rows # <<>>
Names(d) == [i \in 1..Len(d.rows) |-> Cell(d, d.rows[i], GYOSA)]
\* record i of d has the empty string in slot s
FreeAt(d, i, s) == Cell(d, d.rows[i], ColName(s)) = <<>>
Marked(grid, s) == At(grid, s) = "common free"
\* the slot the availability widgets select
Selected(s) == <<Days[s[1]]>> = ui.day_filter /\ PeriodName(s[2]) = ui.period_filter

\* C1, as claimed: for every selection R, of one record too, and every slot
\* that has a column, the combined timetable the page shows marks the slot
\* exactly when every record of R is free in it.
C1_Original ==
    Found => \A s \in Slots : HasCol(R, ColName(s)) =>
                (Marked(out.combined.grid, s) <=> \A i \in 1..Len(R.rows) : FreeAt(R, i, s))

\* C1, amended: the page shows the combined timetable exactly for two or
\* more selected records, and then a slot that has a column is marked exactly
\* when every record is free in it; for one record no combined timetable is
\* shown, and display_combined_timetable applied to it would mark exactly the
\* record's own free slots.
C1_Amended ==
    Found =>
        /\ out.combined.shown <=> Len(R.rows) >= 2
        /\ Len(R.rows) >= 2 =>
             \A s \in Slots : HasCol(R, ColName(s)) =>
                (Marked(out.combined.grid, s) <=> \A i \in 1..Len(R.rows) : FreeAt(R, i, s))
        /\ Len(R.rows) = 1 =>
             /\ \A s \in Slots : ~Marked(out.combined.grid, s)
             /\ \A s \in Slots : HasCol(R, ColName(s)) =>
                   (Marked(display_combined_timetable(R), s) <=> FreeAt(R, 1, s))

C1_Witness ==
    /\ Found /\ Len(R.rows) >= 2 /\ out.combined.shown
    /\ \E s \in Slots : HasCol(R, ColName(s)) /\ Marked(out.combined.grid, s)

\* C2, as claimed, and only for the slots that have a column: the
\* availability view shows two lists of names, in input order, whose lengths
\* sum to the number of records, that share no name, every name being in
\* exactly one of them.
C2_Original ==
    Found => \A s \in Slots : (Selected(s) /\ HasCol(R, ColName(s))) =>
        LET free == {i \in 1..Len(R.rows) : FreeAt(R, i, s)}
            a == out.avail.a
            b == out.avail.b
        IN  /\ out.avail.kind = "lists"
            /\ a = Pick(Names(R), free, 1)
            /\ b = Pick(Names(R), (1..Len(R.rows)) \ free, 1)
            /\ Len(a) + Len(b) = Len(R.rows)
            /\ \A i \in 1..Len(a), j \in 1..Len(b) : a[i] # b[j]
            /\ \A i \in 1..Len(R.rows) :
                  (\E k \in 1..Len(a) : a[k] = Names(R)[i]) # (\E k \in 1..Len(b) : b[k] = Names(R)[i])

\* C2, amended: for a slot that has a column the view shows the names of the
\* records free in it and the names of the records busy in it, each in input
\* order, so every record is in exactly one list and the lengths sum to the
\* number of records; the lists share no name when no two records share one.
\* For a slot that has no column the view shows no list.
C2_Amended ==
    Found => \A s \in Slots : Selected(s) =>
        IF HasCol(R, ColName(s))
        THEN LET free == {i \in 1..Len(R.rows) : FreeAt(R, i, s)}
                 a == out.avail.a
                 b == out.avail.b
             IN  /\ out.avail.kind = "lists"
                 /\ a = Pick(Names(R), free, 1)
                 /\ b = Pick(Names(R), (1..Len(R.rows)) \ free, 1)
                 /\ Len(a) + Len(b) = Len(R.rows)
                 /\ (\A i, j \in 1..Len(R.rows) : i # j => Names(R)[i] # Names(R)[j])
                       => \A i \in 1..Len(a), j \in 1..Len(b) : a[i] # b[j]
        ELSE out.avail = NoView

\* two records of one name, one free and one busy in the selected slot
C2_Witness ==
    /\ Found /\ out.avail.kind = "lists"
    /\ \E i \in 1..Len(out.avail.a), j \in 1..Len(out.avail.b) : out.avail.a[i] = out.avail.b[j]

\* C3: the name search returns exactly the records whose name is selected,
\* in table order: none for an empty selection, the whole table in its order
\* when every name of the table is selected.
C3_NameFilter ==
    (out.status = "ok" /\ ui.search_option = "name") =>
        /\ R.rows = Pick(df.rows, {i \in 1..Len(df.rows) : Names(df)[i] \in ui.teachers}, 1)
        /\ ui.teachers = {} => R.rows = <<>>
        /\ ui.teachers = {Names(df)[i] : i \in 1..Len(df.rows)} => R.rows = df.rows

\* some names selected, some not, of a table of two or more rows
C3_Witness ==
    /\ out.status = "ok" /\ ui.search_option = "name"
    /\ R.rows # <<>> /\ Len(R.rows) < Len(df.rows)

\* C8, as claimed: a slot that has no column is treated as free: the combined
\* timetable marks it, the availability view lists every record as available,
\* and the individual grids show an empty cell.
C8_Original ==
    Found => \A s \in Slots : ~HasCol(R, ColName(s)) =>
        /\ out.combined.shown => Marked(out.combined.grid, s)
        /\ Selected(s) => (out.avail.kind = "lists" /\ out.avail.a = Names(R) /\ out.avail.b = <<>>)
        /\ \A i \in 1..Len(R.rows) : At(out.timetables[i], s) = <<>>

\* C8, amended: for a slot that has no column the combined timetable leaves
\* the cell unmarked, the availability view shows no list at all, and the
\* individual grids show an empty cell.
C8_Amended ==
    Found => \A s \in Slots : ~HasCol(R, ColName(s)) =>
        /\ At(out.combined.grid, s) = ""
        /\ Selected(s) => out.avail = NoView
        /\ \A i \in 1..Len(R.rows) : At(out.timetables[i], s) = <<>>

C8_Witness ==
    /\ Found /\ out.combined.shown
    /\ \E s \in Slots : ~HasCol(R, ColName(s)) /\ Selected(s)
    /\ \E s \in Slots : HasCol(R, ColName(s))

\* a department is selected in the lunch expander on a weekday
LunchAsked == out.status \in {"ok", "KeyError"} /\ InWeekdayMap(now.weekday) /\ ui.selected_dept # NoSel
LunchSlot == <<now.weekday + 1, LunchPeriod>>

\* C9, as claimed: a slot the table has no column for makes the query fail
\* loudly, in the availability view and in the lunch query alike.
C9_Original ==
    /\ Found => \A s \in Slots : (Selected(s) /\ ~HasCol(R, ColName(s))) => out.status = "KeyError"
    /\ (LunchAsked /\ ~HasCol(df, ColName(LunchSlot))) => out.lunch.kind = "KeyError"

\* C9, amended: the lunch query fails loudly (an uncaught KeyError that ends
\* the run) when the table has no column for today's lunch period; the
\* availability view does not fail for a slot without a column: the run goes
\* on without an error and the view shows nothing.
C9_Amended ==
    /\ (LunchAsked /\ ~HasCol(df, ColName(LunchSlot))) =>
          (out.lunch.kind = "KeyError" /\ out.status = "KeyError" /\ out.timetables = <<>>)
    /\ Found => \A s \in Slots : (Selected(s) /\ ~HasCol(R, ColName(s))) => out.avail = NoView

C9_Witness == LunchAsked /\ out.lunch.kind = "KeyError" /\ df.rows # <<>>

\* C4: the subject and department search returns, in table order, the
\* records that meet every criterion in use: subject and department when both
\* sets are non-empty, the one membership when one set is, none when both are
\* empty.
C4_Conjunction ==
    (out.status = "ok" /\ ui.search_option = "subject") =>
        LET S == ui.subjects
            D == ui.departments
            subj(i) == Cell(df, df.rows[i], GYOGWA)
            dept(i) == Cell(df, df.rows[i], BUSEO)
            all == 1..Len(df.rows)
            want == IF S # {} /\ D # {} THEN {i \in all : subj(i) \in S /\ dept(i) \in D}
                    ELSE IF S # {} THEN {i \in all : subj(i) \in S}
                    ELSE IF D # {} THEN {i \in all : dept(i) \in D}
                    ELSE {}
        IN  R.rows = Pick(df.rows, want, 1)

\* both sets in use, a record returned, another left out that meets one of them
C4_Witness ==
    /\ out.status = "ok" /\ ui.search_option = "subject"
    /\ ui.subjects # {} /\ ui.departments # {} /\ R.rows # <<>>
    /\ \E i \in 1..Len(df.rows) :
          /\ Cell(df, df.rows[i], GYOGWA) \in ui.subjects
          /\ Cell(df, df.rows[i], BUSEO) \notin ui.departments

\* a sheet the load is claimed to fail on: the URL does not answer, one of
\* the identity columns the program uses is missing, or a row has a sequence
\* id that is neither blank nor a number
Faulty(s) ==
    \/ ~s.up
    \/ \E c \in {YEONBEON, GYOGWA, BUSEO, GYOSA} : \A j \in 1..IdCols : s.h2[j] # c
    \/ \E j \in 1..IdCols : s.h2[j] = YEONBEON /\
          \E i \in 1..Len(s.rows) : s.rows[i][j] # <<>> /\ ~IsNumeric(s.rows[i][j])

\* C5: whatever fails in the load, load_data_from_github returns no table and
\* the run renders none of the query views.
C5_Original ==
    (attempt # "none" /\ Faulty(fetched)) =>
        (df.none /\ out.status = "warning" /\ out.rendered = {} /\ out.lunch = NoView)

\* C6: when the most recent load attempt failed the run sees no table, also
\* after an earlier load succeeded; the table a run sees is always the whole
\* result of the most recent load attempt, never a mix.
C6_NoStaleTable ==
    /\ attempt = "failed" => (df.none /\ cache.value.none /\ out = Blank)
    /\ attempt # "none" => (df = load_data_from_github(fetched) /\ cache.value = df)

\* the failure is still served from the cache after the sheet is sound again
C6_Witness ==
    /\ attempt = "failed" /\ out.status = "warning" /\ cache.age > 0
    /\ ~Faulty(src)

\* C7: the first five columns are named by the second header row; a later
\* column by the nearest non-blank first-row label at or before it among the
\* slot columns, followed by its second-row value; so a label on the first
\* column only of a block of seven names the block label+1 .. label+7.
C7_Flatten ==
    attempt = "ok" =>
        LET h1 == fetched.h1
            h2 == fetched.h2
        IN  /\ Len(df.cols) = Len(h2)
            /\ \A j \in 1..IdCols : df.cols[j] = h2[j]
            /\ \A j \in (IdCols + 1)..Len(h2) :
                  LET seen == {k \in (IdCols + 1)..j : h1[k] # <<>>}
                      day == IF seen = {} THEN <<>>
                             ELSE h1[CHOOSE k \in seen : \A m \in seen : m <= k]
                  IN  df.cols[j] = day \o h2[j]
            /\ (h1[IdCols + 1] # <<>> /\ \A k \in 2..NumPeriods : h1[IdCols + k] = <<>>)
                  => \A i \in 1..NumPeriods : df.cols[IdCols + i] = h1[IdCols + 1] \o Str(i)

C7_Witness ==
    /\ attempt = "ok"
    /\ fetched.h1[IdCols + 1] = <<Days[1]>>
    /\ \A k \in 2..NumPeriods : fetched.h1[IdCols + k] = <<>>
    /\ df.cols[IdCols + NumPeriods] = <<Days[1]>> \o Str(NumPeriods)

====
